---- MODULE Spec2Model ----
(***************************************************************************)
(* A state-machine model of the CineAI Editor component                    *)
(* (src/components/Editor.tsx, first component of the file) together with  *)
(* the asset list it shares with App (src/unnamed/part_000).               *)
(*                                                                         *)
(* One Editor instance is modelled from the moment its mount effects have  *)
(* run until after it is unmounted.  Every event handler is one action;    *)
(* the re-render that a state update causes and the effects that re-render *)
(* runs are part of the handler's action.  The one exception is a timer    *)
(* callback that changes what draw paints: React runs the effects of such  *)
(* a commit in a later task, which is an action of its own (FlushEffects). *)
(* Browser objects (the two video elements, the Web Audio graph,           *)
(* MediaRecorder, timers, animation frames) are modelled by the state they *)
(* expose to the component.                                                *)
(*                                                                         *)
(* Scaled numbers: params.speed is in hundredths (100 = 1.0), params.zoom  *)
(* in tenths (10 = 1.0), overlayParams.scale is an exact fraction          *)
(* <<numerator, denominator>>.                                             *)
(***************************************************************************)
EXTENDS Integers, Sequences, FiniteSets, TLC

VARIABLES
    mounted,            \* the Editor instance is mounted
    assets,             \* App: const [assets, setAssets] (most recent first)
    imports,            \* number of files imported so far (bounds the run)
    selectedAsset,      \* useState: selected primary asset or NoAsset
    overlayAsset,       \* useState: overlay asset or NoAsset
    params,             \* useState: EditParams
    overlayParams,      \* useState: Transform of the overlay
    textParams,         \* useState: Transform of the text layer
    textLayer,          \* useState: string | null
    currentSubtitle,    \* useState: string
    activeToolCategory, \* useState: 'main' | 'overlay' | 'audio' | 'ai'
    isProcessing,       \* useState: string | null
    isExporting,        \* useState: boolean
    isPlaying,          \* useState: boolean
    mainVideo,          \* mainVideoRef.current (HTMLVideoElement)
    overlayVideo,       \* overlayVideoRef.current (HTMLVideoElement)
    audioCtxRef,        \* audioCtxRef.current: "null" | "running" | "closed"
    sourceNodeRef,      \* sourceNodeRef.current is set
    filterNodeRef,      \* filterNodeRef.current: BiquadFilterNode or NoFilter
    audioGraph,         \* what the Web Audio subsystem holds (counts of objects made)
    requestRef,         \* requestRef.current: last animation-frame id
    rafPending,         \* animation-frame callbacks requested and not yet run/cancelled
    exportCalls,        \* history: number of handleExport calls made
    exports,            \* one record per handleExport call that passed its guard
    aiTimers,           \* pending setTimeout callbacks of the simulated AI effects
    lastEnabled,        \* history: which of the audio flags now on was switched on last
    generated,          \* number of assets the Generator has delivered (bounds the run)
    staleView,          \* what the pending frame callback's draw closes over, when that
                        \* is not the latest render (NoView otherwise)
    lastClick,          \* history: the last click on the canvas
    lastTickStale,      \* history: the last tick drew state older than the state it ran in
    canvas              \* canvasRef.current: bitmap width, the 2d context's drawing state
                        \* and saved states; history: the layers the last tick painted

vars == << mounted, assets, imports, selectedAsset, overlayAsset, params, overlayParams,
           textParams, textLayer, currentSubtitle, activeToolCategory, isProcessing,
           isExporting, isPlaying, mainVideo, overlayVideo, audioCtxRef, sourceNodeRef,
           filterNodeRef, audioGraph, requestRef, rafPending, exportCalls, exports, aiTimers,
           lastEnabled, generated, staleView, lastClick, lastTickStale, canvas >>

\* groups used in UNCHANGED clauses
appVars    == << assets, imports >>
selVars    == << selectedAsset, overlayAsset >>
editVars   == << params, overlayParams, textParams, textLayer, lastEnabled >>
uiVars     == << currentSubtitle, activeToolCategory, isProcessing >>
playVars   == << isExporting, isPlaying >>
mediaVars  == << mainVideo, overlayVideo >>
audioVars  == << audioCtxRef, sourceNodeRef, filterNodeRef, audioGraph >>
rafVars    == << requestRef, rafPending, staleView >>
traceVars  == << generated, lastClick, lastTickStale, canvas >>

-----------------------------------------------------------------------------
(* Bounds of the model *)

MaxImports == 1         \* files imported during one run
MaxExports == 2         \* handleExport calls during one run
MaxEffects == 2         \* simulated AI effect timers outstanding at once
MaxScaleSteps == 2      \* removeBackground enlargements since the last slider setting
MaxGenerated == 1       \* assets delivered by the Generator during one run

-----------------------------------------------------------------------------
(* Data *)

\* src/unnamed/part_000: enum AssetType
AssetType == [IMAGE |-> "image", VIDEO |-> "video"]

\* The selected/overlay state when it is null.
NoAsset == [id |-> 0, type |-> "none", prompt |-> << >>, media |-> "none"]

\* An Asset (part_000 interface Asset).  `prompt` is the label, a string held
\* as the sequence of its words.  `media` stands for what the url really holds,
\* which decides whether a <video> element can decode it.
Asset(id, type, prompt, media) ==
    [id |-> id, type |-> type, prompt |-> prompt, media |-> media]

\* handleExport's parameter type: '720p' | '1080p' | '4k'
Qualities == {"720p", "1080p", "4k"}

\* The template literal `Export ${res}` of handleExport's onAddAsset call.
ExportPrompt(res) == << "Export", res >>

\* label.includes(word)
Includes(label, word) == \E i \in DOMAIN label : label[i] = word

\* Local files the user can import (accept="video/*,image/*").
Files == { [name |-> "clip.mp4", mime |-> "video"],
           [name |-> "pic.png",  mime |-> "image"] }

DEFAULT_PARAMS ==
    [ brightness |-> 100, contrast |-> 100, saturate |-> 100, blur |-> 0,
      opacity |-> 100, volume |-> 100, speed |-> 100, zoom |-> 10, rotate |-> 0,
      noiseReduction |-> FALSE, voiceIsolation |-> FALSE ]

\* useState initial values of the two transforms
InitialOverlayParams == [x |-> 50, y |-> 50, scale |-> <<30, 100>>, rotation |-> 0]
InitialTextParams    == [x |-> <<1, 2>>, y |-> <<4, 5>>, scale |-> 1, rotation |-> 0]

\* textLayer === null
NullText == "null"

\* What the text input can hold: typed text, or nothing after deleting it.
Texts == {"Hola", ""}

\* `if (textLayer)`: null and the empty string are falsy.
Truthy(text) == text # NullText /\ text # ""

\* canvasRef.current.getBoundingClientRect(): where the canvas is laid out,
\* in CSS pixels.  The canvas bitmap itself is always 1280x720 (line 148).
Rects == { [left |-> 100, top |-> 50, width |-> 640, height |-> 360],
           [left |-> 0, top |-> 0, width |-> 1280, height |-> 720] }

\* Mouse positions tried (clientX, clientY); every one lies inside every rect.
Clicks == { [clientX |-> 420, clientY |-> 338], [clientX |-> 260, clientY |-> 140] }

\* lastClick before the first click
NoClick == [clientX |-> 0, clientY |-> 0, rect |-> [left |-> 0, top |-> 0, width |-> 0,
                                                    height |-> 0]]

RECURSIVE GCD(_, _)
GCD(a, b) == IF b = 0 THEN a ELSE GCD(b, a % b)

\* The number n / d (n >= 0, d > 0), held as the fraction in lowest terms.
Quotient(n, d) == << n \div GCD(n, d), d \div GCD(n, d) >>

-----------------------------------------------------------------------------
(* HTMLVideoElement, as far as the Editor uses it *)

\* el.duration while no media data is available
NaN == -1

\* Length in seconds of the media behind an asset's url: the imported clip is
\* a short one, the other videos are longer, an image has no duration.
MediaDuration(asset) ==
    IF asset.media # "video" THEN NaN
    ELSE IF asset.prompt = << "clip.mp4" >> THEN 5 ELSE 12

\* document.createElement('video')
NewVideo ==
    [ src |-> 0, paused |-> TRUE, readyState |-> 0, error |-> FALSE,
      currentTime |-> 0, duration |-> NaN, playbackRate |-> 100, volume |-> 100,
      loop |-> FALSE, muted |-> FALSE, subtitleHook |-> FALSE ]

\* el.src = asset.url; el.load(): the media element load algorithm resets the
\* element (paused, position 0, nothing decoded, playbackRate back to the
\* default rate) and starts fetching the new source.
Load(el, asset) ==
    [ el EXCEPT !.src = asset.id, !.paused = TRUE, !.readyState = 0,
                !.error = FALSE, !.currentTime = 0, !.duration = NaN,
                !.playbackRate = 100 ]

\* el.pause()
Pause(el) == [el EXCEPT !.paused = TRUE]

\* el.play(): an element whose source could not be decoded returns a rejected
\* promise and stays as it is; otherwise the element leaves the paused state.
Play(el) == IF el.error THEN el ELSE [el EXCEPT !.paused = FALSE]

\* The play() promises that pause() or load() on the primary element rejects:
\* every handleExport still awaiting its play() goes to its catch block.
RejectPendingPlays(ex) ==
    [ e \in DOMAIN ex |->
        IF ex[e].pc = "awaitPlay" THEN [ex[e] EXCEPT !.pc = "playRejected"] ELSE ex[e] ]

\* Rejection happens only when the element was actually playing or waiting to.
AfterPause(el, ex) == IF el.paused THEN ex ELSE RejectPendingPlays(ex)

-----------------------------------------------------------------------------
(* Web Audio graph *)

NoFilter == [type |-> "null", frequency |-> 0, Q |-> 0]

\* ctx.createBiquadFilter(): the defaults of a BiquadFilterNode
NewBiquadFilter == [type |-> "lowpass", frequency |-> 350, Q |-> 1]

NoAudioGraph == [contexts |-> 0, sources |-> 0, filters |-> 0, routes |-> 0,
                 warned |-> FALSE, thrown |-> FALSE]

\* setupAudio as it would be if it made a fresh AudioContext for every new video.
setupAudio_NewContext(ctx, src, filter, graph, rejects) ==
    LET graph1 == [graph EXCEPT !.contexts = @ + 1]
        throws == rejects \/ graph1.sources > 0
    IN  IF src
        THEN [ctx |-> "running", src |-> src, filter |-> filter, graph |-> graph1]
        ELSE IF throws
             THEN [ctx |-> "running", src |-> FALSE, filter |-> filter,
                   graph |-> [graph1 EXCEPT !.warned = TRUE]]
             ELSE [ctx |-> "running", src |-> TRUE, filter |-> NewBiquadFilter,
                   graph |-> [graph1 EXCEPT !.sources = @ + 1, !.filters = @ + 1,
                                            !.routes = @ + 1]]

\* One call of setupAudio (lines 118-138) on the refs and the audio subsystem.
\* `rejects`: the subsystem refuses the attach.  createMediaElementSource also
\* throws when the element already feeds a source node.
setupAudio(ctx, src, filter, graph, rejects) ==
    LET ctx1   == IF ctx = "null" THEN "running" ELSE ctx
        graph1 == IF ctx = "null" THEN [graph EXCEPT !.contexts = @ + 1] ELSE graph
        throws == rejects \/ graph1.sources > 0
    IN  IF src
        THEN [ctx |-> ctx1, src |-> src, filter |-> filter, graph |-> graph1]
        ELSE IF throws
             THEN [ctx |-> ctx1, src |-> FALSE, filter |-> filter,
                   graph |-> [graph1 EXCEPT !.warned = TRUE]]
             ELSE [ctx |-> ctx1, src |-> TRUE, filter |-> NewBiquadFilter,
                   graph |-> [graph1 EXCEPT !.sources = @ + 1, !.filters = @ + 1,
                                            !.routes = @ + 1]]

\* The filter part of the audio effect as it would be if noise reduction
\* lowered the cutoff from wherever it stood.
applyFilterMode_Relative(filter, p) ==
    IF filter = NoFilter THEN filter
    ELSE IF p.noiseReduction
         THEN [filter EXCEPT !.type = "lowpass", !.frequency = @ - 50]
         ELSE IF p.voiceIsolation
              THEN [filter EXCEPT !.type = "bandpass", !.frequency = 1500, !.Q = 1]
              ELSE [filter EXCEPT !.type = "allpass"]

\* The filter part of the audio effect (lines 310-324).
applyFilterMode(filter, p) ==
    IF filter = NoFilter THEN filter
    ELSE IF p.noiseReduction
         THEN [filter EXCEPT !.type = "lowpass", !.frequency = 3000]
         ELSE IF p.voiceIsolation
              THEN [filter EXCEPT !.type = "bandpass", !.frequency = 1500, !.Q = 1]
              ELSE [filter EXCEPT !.type = "allpass"]

\* The element part of the audio effect (lines 326-328).
applyMainRate(el, p)    == [el EXCEPT !.volume = p.volume, !.playbackRate = p.speed]
applyOverlayRate(el, p) == [el EXCEPT !.playbackRate = p.speed]

-----------------------------------------------------------------------------
(* Animation frames *)

\* requestAnimationFrame returns an id no pending callback has.
NextFrame(pending) == CHOOSE n \in 1..(Cardinality(pending) + 1) : n \notin pending

\* cancelAnimationFrame(id)
Cancel(pending, id) == pending \ {id}

\* The component state draw (lines 141-229) paints from, read through its
\* closure: the visual fields of params; with an overlay chosen, the overlay,
\* its transform and whether the tool category asks for the selection outline;
\* with a text, the text and its transform; the subtitle cue.  The two video
\* elements are refs and are read live.
DrawParams(p) ==
    [ f \in {"zoom", "rotate", "brightness", "contrast", "saturate", "blur", "opacity"}
        |-> p[f] ]

View ==
    << DrawParams(params),
       IF overlayAsset # NoAsset
       THEN << overlayAsset.id, overlayParams, activeToolCategory = "overlay" >>
       ELSE << >>,
       IF Truthy(textLayer) THEN << textLayer, textParams >> ELSE << >>,
       currentSubtitle >>

\* staleView when the pending callback is the latest render's draw.
NoView == << >>

\* The render-loop effect as it would be without its cleanup.
Rerender_NoCleanup ==
    LET id == NextFrame(rafPending)
    IN  /\ requestRef' = id
        /\ rafPending' = rafPending \cup {id}
        /\ staleView' = NoView

\* The dependency-less render-loop effect (lines 231-234), run by every
\* re-render: the previous render's cleanup, then a new request with that
\* render's draw.
Rerender ==
    LET kept == Cancel(rafPending, requestRef)
        id   == NextFrame(kept)
    IN  /\ requestRef' = id
        /\ rafPending' = kept \cup {id}
        /\ staleView' = NoView

\* A handler whose state updates changed nothing causes no re-render.
RerenderIf(changed) == IF changed THEN Rerender ELSE UNCHANGED rafVars

-----------------------------------------------------------------------------
(* The canvas and draw *)

\* The drawing state of a fresh 2d context, as far as draw touches it.
\* globalAlpha is in hundredths; "#000" and the default fill style are the
\* same colour, black.
DefaultCtx ==
    [ filter |-> << "none" >>, globalAlpha |-> 100, transform |-> << >>,
      shadowBlur |-> 0, fillStyle |-> "black" ]

\* A <canvas> without width/height attributes (lines 412-416) is 300 wide.
NewCanvas == [ width |-> 300, ctx |-> DefaultCtx, stack |-> << >>, layers |-> << >> ]

\* Canvas commands
Save == [op |-> "save"]
Restore == [op |-> "restore"]
Set(field, value) == [op |-> "set", field |-> field, value |-> value]
Transform(t) == [op |-> "transform", t |-> t]
Paint(layer) == [op |-> "paint", layer |-> layer]

\* What the 2d context does with a list of commands, from drawing state ctx
\* and saved states stack: every paint is recorded with the drawing state it
\* was made in.  restore() with nothing saved does nothing.
RECURSIVE Run(_, _, _, _)
Run(cmds, ctx, stack, out) ==
    IF Len(cmds) = 0 THEN [ctx |-> ctx, stack |-> stack, out |-> out]
    ELSE LET c == Head(cmds)
             rest == Tail(cmds)
         IN  CASE c.op = "save" -> Run(rest, ctx, << ctx >> \o stack, out)
               [] c.op = "restore" ->
                    IF Len(stack) = 0 THEN Run(rest, ctx, stack, out)
                    ELSE Run(rest, Head(stack), Tail(stack), out)
               [] c.op = "set" -> Run(rest, [ctx EXCEPT ![c.field] = c.value], stack, out)
               [] c.op = "transform" ->
                    Run(rest, [ctx EXCEPT !.transform = @ \o << c.t >>], stack, out)
               [] c.op = "paint" ->
                    Run(rest, ctx, stack, out \o << [layer |-> c.layer, ctx |-> ctx] >>)

\* Step 1 of draw (lines 155-158): clearRect and the black fillRect
drawClear == << Paint("clear"), Set("fillStyle", "black"), Paint("black") >>

\* Step 2 as it would be without the ctx.restore() that ends it.
drawPrimary_NoRestore(V, mainVid) ==
    << Save,
       Transform(<< "translate", 640, 360 >>),
       Transform(<< "scale", V[1].zoom >>),
       Transform(<< "rotate", V[1].rotate >>),
       Transform(<< "translate", -640, -360 >>),
       Set("filter", << "brightness", V[1].brightness, "contrast", V[1].contrast,
                        "saturate", V[1].saturate, "blur", V[1].blur >>),
       Set("globalAlpha", V[1].opacity) >>
    \o (IF mainVid.readyState >= 2 THEN << Paint("primary") >> ELSE << >>)

\* Step 2 of draw (lines 160-175): the primary, zoomed and rotated about the
\* centre, filtered and faded, painted if the element has a frame; all
\* between save and restore.
drawPrimary(V, mainVid) ==
    << Save,
       Transform(<< "translate", 640, 360 >>),
       Transform(<< "scale", V[1].zoom >>),
       Transform(<< "rotate", V[1].rotate >>),
       Transform(<< "translate", -640, -360 >>),
       Set("filter", << "brightness", V[1].brightness, "contrast", V[1].contrast,
                        "saturate", V[1].saturate, "blur", V[1].blur >>),
       Set("globalAlpha", V[1].opacity) >>
    \o (IF mainVid.readyState >= 2 THEN << Paint("primary") >> ELSE << >>)
    \o << Restore >>

\* Step 3 as it would be if it did not look at the overlay element's readyState.
drawOverlay_NoReadyCheck(V, overlayVid) ==
    IF V[2] # << >>
    THEN << Save, Set("filter", << "none" >>), Set("globalAlpha", 100),
            Transform(<< "translate", V[2][2].x, V[2][2].y >>),
            Set("shadowBlur", 10), Paint("overlay") >>
         \o (IF V[2][3] THEN << Paint("outline") >> ELSE << >>)
         \o << Restore >>
    ELSE << >>

\* Step 3 of draw (lines 177-199): the overlay at its position, with a
\* shadow, and the selection outline while the overlay tool is active.
drawOverlay(V, overlayVid) ==
    IF V[2] # << >> /\ overlayVid.readyState >= 2
    THEN << Save, Set("filter", << "none" >>), Set("globalAlpha", 100),
            Transform(<< "translate", V[2][2].x, V[2][2].y >>),
            Set("shadowBlur", 10), Paint("overlay") >>
         \o (IF V[2][3] THEN << Paint("outline") >> ELSE << >>)
         \o << Restore >>
    ELSE << >>

\* Step 4 of draw (lines 201-214): strokeText and fillText at the text's
\* place, which is kept as the fractions of the canvas size it is given in.
drawText(V) ==
    IF V[3] # << >>
    THEN << Save, Set("filter", << "none" >>), Set("fillStyle", "white"),
            Transform(<< "translateBy", V[3][2].x, V[3][2].y >>),
            Paint("text"), Paint("text"), Restore >>
    ELSE << >>

\* Step 5 of draw (lines 216-226): the subtitle cue at the bottom centre
drawSubtitle(V) ==
    IF V[4] # ""
    THEN << Save, Set("fillStyle", "yellow"), Set("shadowBlur", 4),
            Paint("subtitle"), Restore >>
    ELSE << >>

\* draw as it would be if it painted the text before the overlay.
draw_TextBeforeOverlay(V, mainVid, overlayVid) ==
    drawClear \o drawPrimary(V, mainVid) \o drawText(V) \o drawOverlay(V, overlayVid)
              \o drawSubtitle(V)

\* The canvas commands of draw (lines 154-226) for the state V its closure
\* holds (see View) and the two video elements as they are now.
draw(V, mainVid, overlayVid) ==
    drawClear \o drawPrimary(V, mainVid) \o drawOverlay(V, overlayVid) \o drawText(V)
              \o drawSubtitle(V)

-----------------------------------------------------------------------------
(* Init: the Editor has been constructed and its mount effects have run *)

Range(s) == { s[i] : i \in DOMAIN s }

AssetById(id) == CHOOSE a \in Range(assets) : a.id = id

\* The library App hands to the Editor when it mounts.
InitialLibraries ==
    { << >>,
      << Asset(1, AssetType.VIDEO, << "a", "river" >>, "video") >>,
      << Asset(1, AssetType.IMAGE, << "a", "cat" >>, "image") >> }

Init ==
    /\ mounted = TRUE
    /\ assets \in InitialLibraries
    /\ imports = 0
    /\ selectedAsset = IF Len(assets) > 0 THEN assets[1] ELSE NoAsset
    /\ overlayAsset = NoAsset
    /\ params = DEFAULT_PARAMS
    /\ overlayParams = InitialOverlayParams
    /\ textParams = InitialTextParams
    /\ textLayer = NullText
    /\ currentSubtitle = ""
    /\ activeToolCategory = "main"
    /\ isProcessing = "null"
    /\ isExporting = FALSE
    /\ isPlaying = FALSE
    /\ \E rejects \in BOOLEAN :
         LET a == IF selectedAsset # NoAsset
                  THEN setupAudio("null", FALSE, NoFilter, NoAudioGraph, rejects)
                  ELSE [ctx |-> "null", src |-> FALSE, filter |-> NoFilter,
                        graph |-> NoAudioGraph]
         IN  /\ audioCtxRef = a.ctx
             /\ sourceNodeRef = a.src
             /\ filterNodeRef = applyFilterMode(a.filter, params)
             /\ audioGraph = a.graph
    /\ mainVideo =
         LET v == [NewVideo EXCEPT !.loop = TRUE]
         IN  applyMainRate(IF selectedAsset # NoAsset THEN Load(v, selectedAsset) ELSE v,
                           params)
    /\ overlayVideo = applyOverlayRate([NewVideo EXCEPT !.loop = TRUE, !.muted = TRUE], params)
    /\ requestRef = 1
    /\ rafPending = {1}
    /\ exportCalls = 0
    /\ exports = << >>
    /\ aiTimers = << >>
    /\ lastEnabled = "none"
    /\ generated = 0
    /\ staleView = NoView
    /\ lastClick = NoClick
    /\ lastTickStale = FALSE
    /\ canvas = NewCanvas

-----------------------------------------------------------------------------
(* Library: asset selection and file import *)

\* App.handleAssetGenerated as it would be if it added the asset at the end.
handleAssetGenerated_AtEnd(list, asset) == list \o << asset >>

\* App.handleAssetGenerated (part_000 lines 38-44): setAssets(prev => [asset, ...prev])
handleAssetGenerated(list, asset) == << asset >> \o list

\* crypto.randomUUID(): an id no asset of the list has
NewId(list) == Len(list) + 1

\* Clicking an asset of the library (line 525) and the load-asset effect it
\* triggers (lines 101-108).  Clicking the asset already selected changes nothing.
SelectAsset(a, rejects) ==
    /\ mounted
    /\ a \in Range(assets)
    /\ a # selectedAsset
    /\ selectedAsset' = a
    /\ mainVideo' = Load(mainVideo, a)
    /\ exports' = AfterPause(mainVideo, exports)
    /\ LET r == setupAudio(audioCtxRef, sourceNodeRef, filterNodeRef, audioGraph, rejects)
       IN  /\ audioCtxRef' = r.ctx
           /\ sourceNodeRef' = r.src
           /\ filterNodeRef' = r.filter
           /\ audioGraph' = r.graph
    /\ Rerender
    /\ UNCHANGED << mounted, appVars, overlayAsset, editVars, uiVars, playVars,
                    overlayVideo, aiTimers, exportCalls, traceVars >>

\* The file input's onChange (lines 514-519).
ImportFile(f) ==
    /\ mounted
    /\ imports < MaxImports
    /\ imports' = imports + 1
    /\ assets' = handleAssetGenerated(assets,
                     Asset(NewId(assets), AssetType.VIDEO, << f.name >>, f.mime))
    /\ Rerender
    /\ UNCHANGED << mounted, selVars, editVars, uiVars, playVars, mediaVars, audioVars,
                    exports, aiTimers, exportCalls, traceVars >>

\* What aiService.generateImage / generateVideo can return (part_001 lines
\* 56-63 and 104-110): the asset type and the prompt typed in the Generator.
Generations == { [type |-> AssetType.IMAGE, prompt |-> << "a", "dog" >>],
                 [type |-> AssetType.VIDEO, prompt |-> << "a", "storm" >>] }

\* A generation started in the Generator view completes (Generator.tsx lines
\* 50-57): onAssetGenerated(asset), whether or not the Editor is on screen.
AssetGenerated(g) ==
    /\ generated < MaxGenerated
    /\ generated' = generated + 1
    /\ assets' = handleAssetGenerated(assets,
                     Asset(NewId(assets), g.type, g.prompt, g.type))
    /\ RerenderIf(mounted)
    /\ UNCHANGED << mounted, imports, selVars, editVars, uiVars, playVars, mediaVars,
                    audioVars, exports, aiTimers, exportCalls, lastClick, lastTickStale,
                    canvas >>

\* The media element finishes fetching its source: a video becomes drawable and
\* playable, anything else ends in a decode error, which rejects pending plays.
MainLoadSettles ==
    /\ mainVideo.src # 0
    /\ mainVideo.readyState = 0
    /\ ~mainVideo.error
    /\ IF AssetById(mainVideo.src).media = "video"
       THEN /\ mainVideo' = [mainVideo EXCEPT
                                 !.readyState = 4,
                                 !.duration = MediaDuration(AssetById(mainVideo.src))]
            /\ UNCHANGED exports
       ELSE /\ mainVideo' = [mainVideo EXCEPT !.error = TRUE]
            /\ exports' = RejectPendingPlays(exports)
    /\ UNCHANGED << mounted, appVars, selVars, editVars, uiVars, playVars, overlayVideo,
                    audioVars, rafVars, aiTimers, exportCalls, traceVars >>

\* The overlay element finishes fetching its source, like the primary.
OverlayLoadSettles ==
    /\ overlayVideo.src # 0
    /\ overlayVideo.readyState = 0
    /\ ~overlayVideo.error
    /\ overlayVideo' =
         IF AssetById(overlayVideo.src).media = "video"
         THEN [overlayVideo EXCEPT !.readyState = 4,
                                   !.duration = MediaDuration(AssetById(overlayVideo.src))]
         ELSE [overlayVideo EXCEPT !.error = TRUE]
    /\ UNCHANGED << mounted, appVars, selVars, editVars, uiVars, playVars, mainVideo,
                    audioVars, rafVars, exports, aiTimers, exportCalls, traceVars >>

-----------------------------------------------------------------------------
(* Playback and export *)

\* handlePlayPause (lines 238-247)
handlePlayPause ==
    /\ mounted
    /\ IF isPlaying
       THEN /\ mainVideo' = Pause(mainVideo)
            /\ overlayVideo' = Pause(overlayVideo)
            /\ exports' = AfterPause(mainVideo, exports)
       ELSE /\ mainVideo' = Play(mainVideo)
            /\ overlayVideo' = Play(overlayVideo)
            /\ UNCHANGED exports
    /\ isPlaying' = ~isPlaying
    /\ Rerender
    /\ UNCHANGED << mounted, appVars, selVars, editVars, uiVars, isExporting, audioVars,
                    aiTimers, exportCalls, traceVars >>

\* The top-bar "Exportar Video" button (line 388):
\* onClick={() => setIsExporting(!isExporting)} disabled={isExporting}
TopBarExport ==
    /\ mounted
    /\ ~isExporting
    /\ isExporting' = ~isExporting
    /\ Rerender
    /\ UNCHANGED << mounted, appVars, selVars, editVars, uiVars, isPlaying, mediaVars,
                    audioVars, exports, aiTimers, exportCalls, traceVars >>

\* mainVideoRef.current.pause(); mainVideoRef.current.currentTime = 0 (lines 254-255)
PreparedMain(el) == [Pause(el) EXCEPT !.currentTime = 0]

\* if (overlayVideoRef.current) overlayVideoRef.current.currentTime = 0 (line 256)
PreparedOverlay(el) == [el EXCEPT !.currentTime = 0]

\* `duration || 10` and `duration * 1000` (lines 293 and 299): the delay of the
\* stop timer in milliseconds; NaN and 0 are falsy.
StopDelay(duration) == (IF duration = NaN \/ duration = 0 THEN 10 ELSE duration) * 1000

\* The template literal `CineAI_Export_${Date.now()}.webm` (line 272), as the
\* sequence of its parts; "Date.now()" stands for the digits of the timestamp.
DownloadName(res) == << "CineAI", "Export", "Date.now()", "webm" >>

\* handleExport's record as it would be if the stop timer were armed right
\* after play() was called, without awaiting it.
NewExport_NoAwait(res, el, ov) ==
    [ res |-> res,
      pc |-> "armed",
      recorder |-> "recording",
      overlay |-> ov # NoAsset,
      assetId |-> 0,
      atStart |-> [ paused |-> PreparedMain(el).paused,
                    currentTime |-> PreparedMain(el).currentTime ],
      timers |-> 1,
      delay |-> StopDelay(el.duration),
      elapsed |-> 0,
      played |-> 0,
      download |-> << >>,
      log |-> << "pausePrimary", "seekPrimary", "recorderStart", "timerArmed" >> ]

\* The record handleExport keeps in its closure: the quality, where the async
\* function stands, the MediaRecorder's state, and overlayAsset as the closure
\* saw it; with it, what the primary element looked like when recorder.start()
\* ran (line 285), the stop timers armed and their delay, the name of the file
\* downloaded, and the events of this export in the order they happened.
NewExport(res, el, ov) ==
    [ res |-> res,
      pc |-> IF el.error THEN "playRejected" ELSE "awaitPlay",
      recorder |-> "recording",
      overlay |-> ov # NoAsset,
      assetId |-> 0,
      atStart |-> [ paused |-> PreparedMain(el).paused,
                    currentTime |-> PreparedMain(el).currentTime ],
      timers |-> 0,
      delay |-> 0,
      elapsed |-> 0,
      played |-> 0,
      download |-> << >>,
      log |-> << "pausePrimary", "seekPrimary", "recorderStart" >> ]

\* handleExport as it would be without its first line, the selectedAsset guard.
handleExport_NoGuard(res) ==
    /\ mounted
    /\ exportCalls < MaxExports
    /\ exportCalls' = exportCalls + 1
    /\ isExporting' = TRUE
    /\ mainVideo' = Play(PreparedMain(mainVideo))
    /\ overlayVideo' = PreparedOverlay(overlayVideo)
    /\ exports' = Append(AfterPause(mainVideo, exports),
                         NewExport(res, mainVideo, overlayAsset))
    /\ RerenderIf(~isExporting)
    /\ UNCHANGED << mounted, appVars, selVars, editVars, uiVars, isPlaying,
                    audioVars, aiTimers, traceVars >>

\* handleExport up to its await (lines 250-289).
handleExport(res) ==
    /\ mounted
    /\ exportCalls < MaxExports
    /\ exportCalls' = exportCalls + 1
    /\ IF selectedAsset = NoAsset
       THEN UNCHANGED << mounted, appVars, selVars, editVars, uiVars, playVars, mediaVars,
                         audioVars, rafVars, exports, aiTimers, traceVars >>
       ELSE /\ isExporting' = TRUE
            /\ mainVideo' = Play(PreparedMain(mainVideo))
            /\ overlayVideo' = PreparedOverlay(overlayVideo)
            /\ exports' = Append(AfterPause(mainVideo, exports),
                                 NewExport(res, mainVideo, overlayAsset))
            /\ RerenderIf(~isExporting)
            /\ UNCHANGED << mounted, appVars, selVars, editVars, uiVars, isPlaying,
                            audioVars, aiTimers, traceVars >>

\* The play() promise of export e resolves: the rest of the try block
\* (lines 290-299) runs and arms the stop timer.
PlayResolved(e) ==
    /\ e \in DOMAIN exports
    /\ exports[e].pc = "awaitPlay"
    /\ ~mainVideo.paused
    /\ mainVideo.readyState = 4
    /\ overlayVideo' = IF exports[e].overlay THEN Play(overlayVideo) ELSE overlayVideo
    /\ exports' = [exports EXCEPT
                       ![e].pc = "armed",
                       ![e].timers = @ + 1,
                       ![e].delay = StopDelay(mainVideo.duration),
                       ![e].log = @ \o << "playResolved", "timerArmed" >>]
    /\ UNCHANGED << mounted, appVars, selVars, editVars, uiVars, playVars, mainVideo,
                    audioVars, rafVars, aiTimers, exportCalls, traceVars >>

\* The play() promise of export e was rejected: the catch block (lines 301-304).
PlayRejected(e) ==
    /\ e \in DOMAIN exports
    /\ exports[e].pc = "playRejected"
    /\ exports' = [exports EXCEPT ![e].pc = "aborted"]
    /\ isExporting' = IF mounted THEN FALSE ELSE isExporting
    /\ RerenderIf(mounted /\ isExporting)
    /\ UNCHANGED << mounted, appVars, selVars, editVars, uiVars, isPlaying, mediaVars,
                    audioVars, aiTimers, exportCalls, traceVars >>

\* The stop timer of export e fires (lines 294-299).
StopTimer(e) ==
    /\ e \in DOMAIN exports
    /\ exports[e].pc = "armed"
    /\ exports' = [AfterPause(mainVideo, exports) EXCEPT
                       ![e].pc = "stopping", ![e].recorder = "inactive",
                       ![e].log = @ \o << "stopTrigger", "recorderStop" >>]
    /\ mainVideo' = Pause(mainVideo)
    /\ overlayVideo' = Pause(overlayVideo)
    /\ isPlaying' = IF mounted THEN FALSE ELSE isPlaying
    /\ RerenderIf(mounted /\ isPlaying)
    /\ UNCHANGED << mounted, appVars, selVars, editVars, uiVars, isExporting, audioVars,
                    aiTimers, exportCalls, traceVars >>

\* The element dt seconds later: a playing element with data moves on by dt
\* times its playbackRate and, looping, starts over at its end.
Advance(el, dt) ==
    IF el.paused \/ el.readyState # 4 THEN el
    ELSE [el EXCEPT !.currentTime = (@ + (dt * el.playbackRate) \div 100) % el.duration]

\* Media time in milliseconds the element plays in dt seconds
PlayedIn(el, dt) == IF el.paused \/ el.readyState # 4 THEN 0 ELSE dt * el.playbackRate * 10

\* dt seconds pass with no timer of an export falling due before their end:
\* both elements play on, and every armed export has waited and recorded
\* that much longer.  (Steps are taken where the positions stay whole seconds.)
Elapse(dt) ==
    /\ \E e \in DOMAIN exports : exports[e].pc = "armed"
    /\ \A e \in DOMAIN exports :
         exports[e].pc = "armed" => exports[e].elapsed + dt * 1000 <= exports[e].delay
    /\ PlayedIn(mainVideo, dt) % 1000 = 0
    /\ PlayedIn(overlayVideo, dt) % 1000 = 0
    /\ mainVideo' = Advance(mainVideo, dt)
    /\ overlayVideo' = Advance(overlayVideo, dt)
    /\ exports' = [ e \in DOMAIN exports |->
                      IF exports[e].pc = "armed"
                      THEN [exports[e] EXCEPT !.elapsed = @ + dt * 1000,
                                              !.played = @ + PlayedIn(mainVideo, dt)]
                      ELSE exports[e] ]
    /\ UNCHANGED << mounted, appVars, selVars, editVars, uiVars, playVars, audioVars,
                    rafVars, aiTimers, exportCalls, traceVars >>

\* The stop timer of export e fires when its delay has passed (line 299).
StopTimerDue(e) ==
    /\ e \in DOMAIN exports
    /\ exports[e].elapsed = exports[e].delay
    /\ StopTimer(e)

\* recorder.onstop as it would be if it registered the export under a fixed label.
RecorderOnStop_FixedLabel(e) ==
    /\ e \in DOMAIN exports
    /\ exports[e].pc = "stopping"
    /\ exports' = [exports EXCEPT
                       ![e].pc = "done", ![e].assetId = NewId(assets),
                       ![e].download = DownloadName(exports[e].res),
                       ![e].log = @ \o << "assetAppended" >>]
    /\ isExporting' = IF mounted THEN FALSE ELSE isExporting
    /\ assets' = handleAssetGenerated(assets,
                     Asset(NewId(assets), AssetType.VIDEO, << "Export" >>, "video"))
    /\ RerenderIf(mounted)
    /\ UNCHANGED << mounted, imports, selVars, editVars, uiVars, isPlaying, mediaVars,
                    audioVars, aiTimers, exportCalls, traceVars >>

\* recorder.onstop of export e (lines 267-283).
RecorderOnStop(e) ==
    /\ e \in DOMAIN exports
    /\ exports[e].pc = "stopping"
    /\ exports' = [exports EXCEPT
                       ![e].pc = "done", ![e].assetId = NewId(assets),
                       ![e].download = DownloadName(exports[e].res),
                       ![e].log = @ \o << "assetAppended" >>]
    /\ isExporting' = IF mounted THEN FALSE ELSE isExporting
    /\ assets' = handleAssetGenerated(assets,
                     Asset(NewId(assets), AssetType.VIDEO, ExportPrompt(exports[e].res),
                           "video"))
    /\ RerenderIf(mounted)
    /\ UNCHANGED << mounted, imports, selVars, editVars, uiVars, isPlaying, mediaVars,
                    audioVars, aiTimers, exportCalls, traceVars >>

-----------------------------------------------------------------------------
(* Compositor scheduling and teardown *)

\* What the draw of the pending callback paints: the state of the render
\* that made it.
Drawn == IF staleView = NoView THEN View ELSE staleView

\* The frame a tick paints now: draw's commands run on the canvas context as
\* the last tick left it; a canvas of another width is resized first (lines
\* 149-152), which resets its context.
Frame ==
    IF canvas.width # 1280
    THEN Run(draw(Drawn, mainVideo, overlayVideo), DefaultCtx, << >>, << >>)
    ELSE Run(draw(Drawn, mainVideo, overlayVideo), canvas.ctx, canvas.stack, << >>)

\* The layers of a frame, in the order they were painted
LayersOf(out) == [ i \in DOMAIN out |-> out[i].layer ]

\* The animation-frame callback as it would be if draw returned early, without
\* requesting the next frame, while the primary has no decoded frame.
Tick_StopsWhenNotReady(id) ==
    /\ id \in rafPending
    /\ IF mounted /\ mainVideo.readyState >= 2
       THEN LET rest == rafPending \ {id}
                next == NextFrame(rest)
            IN  /\ requestRef' = next
                /\ rafPending' = rest \cup {next}
                /\ lastTickStale' = (Drawn # View)
                /\ canvas' = [width |-> 1280, ctx |-> Frame.ctx, stack |-> Frame.stack,
                              layers |-> LayersOf(Frame.out)]
       ELSE /\ rafPending' = rafPending \ {id}
            /\ UNCHANGED << requestRef, lastTickStale, canvas >>
    /\ UNCHANGED << staleView, generated, lastClick >>
    /\ UNCHANGED << mounted, appVars, selVars, editVars, uiVars, playVars, mediaVars,
                    audioVars, exports, aiTimers, exportCalls >>

\* One animation-frame callback runs draw (lines 141-229): with the canvas gone
\* draw returns at once, otherwise it paints and requests the next frame with
\* itself, the same closure (line 228).
Tick(id) ==
    /\ id \in rafPending
    /\ IF mounted
       THEN LET rest == rafPending \ {id}
                next == NextFrame(rest)
            IN  /\ requestRef' = next
                /\ rafPending' = rest \cup {next}
                /\ lastTickStale' = (Drawn # View)
                /\ canvas' = [width |-> 1280, ctx |-> Frame.ctx, stack |-> Frame.stack,
                              layers |-> LayersOf(Frame.out)]
       ELSE /\ rafPending' = rafPending \ {id}
            /\ UNCHANGED << requestRef, lastTickStale, canvas >>
    /\ UNCHANGED << staleView, generated, lastClick >>
    /\ UNCHANGED << mounted, appVars, selVars, editVars, uiVars, playVars, mediaVars,
                    audioVars, exports, aiTimers, exportCalls >>

\* Unmount as it would be if neither cleanup cancelled the animation frame.
Unmount_NoCancel ==
    /\ mounted
    /\ mounted' = FALSE
    /\ audioCtxRef' = IF audioCtxRef # "null" THEN "closed" ELSE audioCtxRef
    /\ UNCHANGED << appVars, selVars, editVars, uiVars, playVars, mediaVars, sourceNodeRef,
                    filterNodeRef, audioGraph, rafVars, exports, aiTimers, exportCalls,
                    traceVars >>

\* The Editor is unmounted: the cleanups of the init effect (lines 94-97) and
\* of the render-loop effect (line 233) run.
Unmount ==
    /\ mounted
    /\ mounted' = FALSE
    /\ rafPending' = Cancel(Cancel(rafPending, requestRef), requestRef)
    /\ staleView' = NoView
    /\ audioCtxRef' = IF audioCtxRef # "null" THEN "closed" ELSE audioCtxRef
    /\ UNCHANGED << appVars, selVars, editVars, uiVars, playVars, mediaVars, sourceNodeRef,
                    filterNodeRef, audioGraph, requestRef, exports, aiTimers, exportCalls,
                    traceVars >>

-----------------------------------------------------------------------------
(* Property panel *)

ToolCategories == {"main", "overlay", "audio", "ai"}

\* The toolbar buttons (lines 404-407)
SetTool(c) ==
    /\ mounted
    /\ c # activeToolCategory
    /\ activeToolCategory' = c
    /\ Rerender
    /\ UNCHANGED << mounted, appVars, selVars, editVars, currentSubtitle, isProcessing,
                    playVars, mediaVars, audioVars, exports, aiTimers, exportCalls, traceVars >>

\* Slider positions tried for the clip sliders of the 'main' panel (lines 459-462):
\* brightness/contrast/saturate 0..200, zoom 1..3 in steps of 0.1.
VisualSliders ==
    [ brightness |-> {100, 150}, contrast |-> {100, 50}, saturate |-> {100, 200},
      zoom |-> {10, 25} ]

\* One of the clip sliders is moved to v: setParams(p => ({...p, [field]: v})).
\* None of these fields is a dependency of the audio effect.
SetVisual(field, v) ==
    /\ mounted
    /\ activeToolCategory = "main"
    /\ params' = [params EXCEPT ![field] = v]
    /\ Rerender
    /\ UNCHANGED << mounted, appVars, selVars, overlayParams, textParams, textLayer,
                    lastEnabled, uiVars, playVars, mediaVars, audioVars, exports, aiTimers,
                    exportCalls, traceVars >>

\* The audio effect (lines 308-330) as run by a re-render in which params became p:
\* it runs only if one of its four dependencies changed.
AudioEffect(p) ==
    IF << p.noiseReduction, p.voiceIsolation, p.volume, p.speed >>
         # << params.noiseReduction, params.voiceIsolation, params.volume, params.speed >>
    THEN /\ filterNodeRef' = applyFilterMode(filterNodeRef, p)
         /\ mainVideo' = applyMainRate(mainVideo, p)
         /\ overlayVideo' = applyOverlayRate(overlayVideo, p)
    ELSE UNCHANGED << filterNodeRef, mainVideo, overlayVideo >>

\* Slider positions tried for volume (0..100) and speed (0.5..2 in steps of 0.25).
VolumeValues == {100, 40}
SpeedValues == {100, 50, 200}

\* The "Volumen" slider (line 485)
SetVolume(v) ==
    /\ mounted
    /\ activeToolCategory = "audio"
    /\ params' = [params EXCEPT !.volume = v]
    /\ AudioEffect(params')
    /\ Rerender
    /\ UNCHANGED << mounted, appVars, selVars, overlayParams, textParams, textLayer,
                    lastEnabled, uiVars, playVars, audioCtxRef, sourceNodeRef, audioGraph,
                    exports, aiTimers, exportCalls, traceVars >>

\* The "Velocidad" slider (line 486)
SetSpeed(v) ==
    /\ mounted
    /\ activeToolCategory = "audio"
    /\ params' = [params EXCEPT !.speed = v]
    /\ AudioEffect(params')
    /\ Rerender
    /\ UNCHANGED << mounted, appVars, selVars, overlayParams, textParams, textLayer,
                    lastEnabled, uiVars, playVars, audioCtxRef, sourceNodeRef, audioGraph,
                    exports, aiTimers, exportCalls, traceVars >>

\* The "Reducir Ruido" toggle (line 489)
ToggleNoiseReduction ==
    /\ mounted
    /\ activeToolCategory = "audio"
    /\ params' = [params EXCEPT !.noiseReduction = ~params.noiseReduction]
    /\ lastEnabled' = IF params'.noiseReduction THEN "noiseReduction"
                      ELSE IF params.voiceIsolation THEN "voiceIsolation" ELSE "none"
    /\ AudioEffect(params')
    /\ Rerender
    /\ UNCHANGED << mounted, appVars, selVars, overlayParams, textParams, textLayer,
                    uiVars, playVars, audioCtxRef, sourceNodeRef, audioGraph,
                    exports, aiTimers, exportCalls, traceVars >>

\* The "Aislar Voz" toggle (line 490)
ToggleVoiceIsolation ==
    /\ mounted
    /\ activeToolCategory = "audio"
    /\ params' = [params EXCEPT !.voiceIsolation = ~params.voiceIsolation]
    /\ lastEnabled' = IF params'.voiceIsolation THEN "voiceIsolation"
                      ELSE IF params.noiseReduction THEN "noiseReduction" ELSE "none"
    /\ AudioEffect(params')
    /\ Rerender
    /\ UNCHANGED << mounted, appVars, selVars, overlayParams, textParams, textLayer,
                    uiVars, playVars, audioCtxRef, sourceNodeRef, audioGraph,
                    exports, aiTimers, exportCalls, traceVars >>

-----------------------------------------------------------------------------
(* Text layer and clicks on the canvas *)

\* The text input of the 'main' panel (line 452): setTextLayer(e.target.value)
SetText(text) ==
    /\ mounted
    /\ activeToolCategory = "main"
    /\ text # textLayer
    /\ textLayer' = text
    /\ Rerender
    /\ UNCHANGED << mounted, appVars, selVars, params, overlayParams, textParams,
                    lastEnabled, uiVars, playVars, mediaVars, audioVars, exports, aiTimers,
                    exportCalls, traceVars >>

\* The "X" button next to the text input (line 454): setTextLayer(null)
ClearText ==
    /\ mounted
    /\ activeToolCategory = "main"
    /\ textLayer # NullText
    /\ textLayer' = NullText
    /\ Rerender
    /\ UNCHANGED << mounted, appVars, selVars, params, overlayParams, textParams,
                    lastEnabled, uiVars, playVars, mediaVars, audioVars, exports, aiTimers,
                    exportCalls, traceVars >>

\* handleCanvasClick as it would be if it normalised by the canvas bitmap size.
handleCanvasClick_BitmapSize(e, rect) ==
    LET clickX == e.clientX - rect.left
        clickY == e.clientY - rect.top
    IN  /\ mounted
        /\ isProcessing = "null"
        /\ lastClick' = [clientX |-> e.clientX, clientY |-> e.clientY, rect |-> rect]
        /\ overlayParams' =
             IF overlayAsset # NoAsset /\ activeToolCategory = "overlay"
             THEN [overlayParams EXCEPT !.x = clickX - 100, !.y = clickY - 50]
             ELSE overlayParams
        /\ textParams' =
             IF Truthy(textLayer) /\ activeToolCategory = "main"
             THEN [x |-> Quotient(clickX, 1280), y |-> Quotient(clickY, 720),
                   scale |-> 1, rotation |-> 0]
             ELSE textParams
        /\ RerenderIf(overlayParams' # overlayParams \/ textParams' # textParams)
        /\ UNCHANGED << mounted, appVars, selVars, params, textLayer, lastEnabled, uiVars,
                        playVars, mediaVars, audioVars, exports, aiTimers, exportCalls,
                        generated, lastTickStale, canvas >>

\* handleCanvasClick as it would be if it did not look at the tool category.
handleCanvasClick_AnyTool(e, rect) ==
    LET clickX == e.clientX - rect.left
        clickY == e.clientY - rect.top
    IN  /\ mounted
        /\ isProcessing = "null"
        /\ lastClick' = [clientX |-> e.clientX, clientY |-> e.clientY, rect |-> rect]
        /\ overlayParams' =
             IF overlayAsset # NoAsset
             THEN [overlayParams EXCEPT !.x = clickX - 100, !.y = clickY - 50]
             ELSE overlayParams
        /\ textParams' =
             IF Truthy(textLayer)
             THEN [x |-> Quotient(clickX, rect.width), y |-> Quotient(clickY, rect.height),
                   scale |-> 1, rotation |-> 0]
             ELSE textParams
        /\ RerenderIf(overlayParams' # overlayParams \/ textParams' # textParams)
        /\ UNCHANGED << mounted, appVars, selVars, params, textLayer, lastEnabled, uiVars,
                        playVars, mediaVars, audioVars, exports, aiTimers, exportCalls,
                        generated, lastTickStale, canvas >>

\* handleCanvasClick (lines 363-379) for mouse event e with the canvas laid
\* out at rect.  The "processing" veil (lines 424-425) covers the canvas and
\* takes the clicks while an effect is running.
handleCanvasClick(e, rect) ==
    LET clickX == e.clientX - rect.left
        clickY == e.clientY - rect.top
    IN  /\ mounted
        /\ isProcessing = "null"
        /\ lastClick' = [clientX |-> e.clientX, clientY |-> e.clientY, rect |-> rect]
        /\ overlayParams' =
             IF overlayAsset # NoAsset /\ activeToolCategory = "overlay"
             THEN [overlayParams EXCEPT !.x = clickX - 100, !.y = clickY - 50]
             ELSE overlayParams
        /\ textParams' =
             IF Truthy(textLayer) /\ activeToolCategory = "main"
             THEN [x |-> Quotient(clickX, rect.width), y |-> Quotient(clickY, rect.height),
                   scale |-> 1, rotation |-> 0]
             ELSE textParams
        /\ RerenderIf(overlayParams' # overlayParams \/ textParams' # textParams)
        /\ UNCHANGED << mounted, appVars, selVars, params, textLayer, lastEnabled, uiVars,
                        playVars, mediaVars, audioVars, exports, aiTimers, exportCalls,
                        generated, lastTickStale, canvas >>

-----------------------------------------------------------------------------
(* Overlay *)

\* The "PIP" button of a library asset (line 531) and the overlay effect
\* (lines 110-115), which runs when overlayAsset changed.
SetOverlay(a) ==
    /\ mounted
    /\ a \in Range(assets)
    /\ overlayAsset' = a
    /\ activeToolCategory' = "overlay"
    /\ overlayVideo' = IF a # overlayAsset THEN Load(overlayVideo, a) ELSE overlayVideo
    /\ RerenderIf(a # overlayAsset \/ activeToolCategory # "overlay")
    /\ UNCHANGED << mounted, appVars, selectedAsset, editVars, currentSubtitle,
                    isProcessing, playVars, mainVideo, audioVars, exports, aiTimers,
                    exportCalls, traceVars >>

\* "Eliminar Overlay" (line 476); the overlay effect runs and does nothing.
RemoveOverlay ==
    /\ mounted
    /\ activeToolCategory = "overlay"
    /\ overlayAsset # NoAsset
    /\ overlayAsset' = NoAsset
    /\ Rerender
    /\ UNCHANGED << mounted, appVars, selectedAsset, editVars, uiVars, playVars, mediaVars,
                    audioVars, exports, aiTimers, exportCalls, traceVars >>

\* Positions of the "Tamaño" slider tried: min 0.1, max 1, step 0.05.
ScaleValues == { <<10, 100>>, <<95, 100>>, <<100, 100>> }

\* The "Tamaño" slider (line 475)
SetOverlayScale(v) ==
    /\ mounted
    /\ activeToolCategory = "overlay"
    /\ overlayAsset # NoAsset
    /\ overlayParams' = [overlayParams EXCEPT !.scale = v]
    /\ Rerender
    /\ UNCHANGED << mounted, appVars, selVars, params, textParams, textLayer, lastEnabled,
                    uiVars, playVars, mediaVars, audioVars, exports, aiTimers, exportCalls,
                    traceVars >>

\* p.scale * 1.1 on the exact fraction
TimesOnePointOne(scale) == << scale[1] * 11, scale[2] * 10 >>

\* Powers of ten, to bound the denominators removeBackground can build up.
RECURSIVE Pow10(_)
Pow10(n) == IF n = 0 THEN 1 ELSE 10 * Pow10(n - 1)

\* removeBackground (lines 349-360) up to its setTimeout
removeBackground ==
    /\ mounted
    /\ activeToolCategory = "ai"
    /\ Len(aiTimers) < MaxEffects
    /\ overlayParams.scale[2] < 100 * Pow10(MaxScaleSteps)
    /\ isProcessing' = "Detectando sujeto..."
    /\ aiTimers' = Append(aiTimers, "removeBackground")
    /\ RerenderIf(isProcessing # isProcessing')
    /\ UNCHANGED << mounted, appVars, selVars, editVars, currentSubtitle,
                    activeToolCategory, playVars, mediaVars, audioVars, exports,
                    exportCalls, traceVars >>

\* aiTimers without its i-th entry
RemoveAt(seq, i) == SubSeq(seq, 1, i - 1) \o SubSeq(seq, i + 1, Len(seq))

\* The timer callback of removeBackground (lines 354-359).  Its state updates
\* are not made by a user interaction, so React commits the re-render and runs
\* the render-loop effect (lines 231-234) later, in a task of its own: until
\* then the pending frame callback is still the draw of the render before,
\* which closes over the state as it was (any effect still outstanding from
\* an earlier commit is run before this render).
RemoveBackgroundDone(i) ==
    /\ i \in DOMAIN aiTimers
    /\ aiTimers[i] = "removeBackground"
    /\ aiTimers' = RemoveAt(aiTimers, i)
    /\ IF mounted
       THEN /\ isProcessing' = "null"
            /\ overlayParams' = [overlayParams EXCEPT !.scale = TimesOnePointOne(@)]
            /\ staleView' = View
            /\ UNCHANGED << requestRef, rafPending >>
       ELSE UNCHANGED << isProcessing, overlayParams, rafVars >>
    /\ UNCHANGED << mounted, appVars, selVars, params, textParams, textLayer, lastEnabled,
                    currentSubtitle, activeToolCategory, playVars, mediaVars, audioVars,
                    exports, exportCalls, traceVars >>

\* React runs the render-loop effect of a commit it had put off: the cleanup
\* of the render before, then a request with the latest draw.
FlushEffects ==
    /\ mounted
    /\ staleView # NoView
    /\ Rerender
    /\ UNCHANGED << mounted, appVars, selVars, editVars, uiVars, playVars, mediaVars,
                    audioVars, exports, aiTimers, exportCalls, traceVars >>

-----------------------------------------------------------------------------
(* Simulated AI effects *)

\* The two subtitle cues of runSubtitleAI (lines 339-340)
Cue1 == "Hola, bienvenidos a este video."
Cue2 == "Hoy vamos a editar con IA."

\* The cue the ontimeupdate handler sets at position t, in seconds (lines 338-341)
SubtitleAt(t) ==
    IF t > 1 /\ t < 3 THEN Cue1
    ELSE IF t > 3 /\ t < 5 THEN Cue2
    ELSE ""

\* runSubtitleAI (lines 332-347) up to its setTimeout
runSubtitleAI ==
    /\ mounted
    /\ activeToolCategory = "ai"
    /\ Len(aiTimers) < MaxEffects
    /\ isProcessing' = "Analizando Audio..."
    /\ aiTimers' = Append(aiTimers, "runSubtitleAI")
    /\ RerenderIf(isProcessing # isProcessing')
    /\ UNCHANGED << mounted, appVars, selVars, editVars, currentSubtitle,
                    activeToolCategory, playVars, mediaVars, audioVars, exports,
                    exportCalls, traceVars >>

\* The timer callback of runSubtitleAI (lines 335-345): the indicator goes, the
\* primary element gets the ontimeupdate handler and is played, isPlaying is
\* set.  After unmount the element ref is null and the callback throws at
\* line 337.  The re-render is committed as in RemoveBackgroundDone.
RunSubtitleAIDone(i) ==
    /\ i \in DOMAIN aiTimers
    /\ aiTimers[i] = "runSubtitleAI"
    /\ aiTimers' = RemoveAt(aiTimers, i)
    /\ IF mounted
       THEN /\ isProcessing' = "null"
            /\ mainVideo' = Play([mainVideo EXCEPT !.subtitleHook = TRUE])
            /\ isPlaying' = TRUE
            /\ IF isProcessing # "null" \/ ~isPlaying
               THEN /\ staleView' = View
                    /\ UNCHANGED << requestRef, rafPending >>
               ELSE UNCHANGED rafVars
       ELSE UNCHANGED << isProcessing, mainVideo, isPlaying, rafVars >>
    /\ UNCHANGED << mounted, appVars, selVars, editVars, currentSubtitle,
                    activeToolCategory, isExporting, overlayVideo, audioVars, exports,
                    exportCalls, traceVars >>

\* The "Estabilización" button (line 500) up to its setTimeout
Stabilize ==
    /\ mounted
    /\ activeToolCategory = "ai"
    /\ Len(aiTimers) < MaxEffects
    /\ isProcessing' = "Estabilizando..."
    /\ aiTimers' = Append(aiTimers, "stabilize")
    /\ RerenderIf(isProcessing # isProcessing')
    /\ UNCHANGED << mounted, appVars, selVars, editVars, currentSubtitle,
                    activeToolCategory, playVars, mediaVars, audioVars, exports,
                    exportCalls, traceVars >>

\* The "Mejorar Calidad (4K)" button (line 501) up to its setTimeout
Upscale ==
    /\ mounted
    /\ activeToolCategory = "ai"
    /\ Len(aiTimers) < MaxEffects
    /\ isProcessing' = "Upscaling 4K..."
    /\ aiTimers' = Append(aiTimers, "upscale")
    /\ RerenderIf(isProcessing # isProcessing')
    /\ UNCHANGED << mounted, appVars, selVars, editVars, currentSubtitle,
                    activeToolCategory, playVars, mediaVars, audioVars, exports,
                    exportCalls, traceVars >>

\* The timer callbacks of the two buttons above: setIsProcessing(null)
ProcessingDone(i) ==
    /\ i \in DOMAIN aiTimers
    /\ aiTimers[i] \in {"stabilize", "upscale"}
    /\ aiTimers' = RemoveAt(aiTimers, i)
    /\ IF mounted /\ isProcessing # "null"
       THEN /\ isProcessing' = "null"
            /\ staleView' = View
            /\ UNCHANGED << requestRef, rafPending >>
       ELSE UNCHANGED << isProcessing, rafVars >>
    /\ UNCHANGED << mounted, appVars, selVars, editVars, currentSubtitle,
                    activeToolCategory, playVars, mediaVars, audioVars, exports,
                    exportCalls, traceVars >>

\* The primary element plays on by a second and fires timeupdate; it loops
\* (loop is set), so the end of the media leads back to 0.  The handler that
\* runSubtitleAI installed sets the cue of the new position; after unmount the
\* element ref it reads is null and it throws.
TimeUpdate ==
    /\ ~mainVideo.paused
    /\ mainVideo.readyState = 4
    /\ LET t == (mainVideo.currentTime + 1) % mainVideo.duration
       IN  /\ mainVideo' = [mainVideo EXCEPT !.currentTime = t]
           /\ IF mainVideo.subtitleHook /\ mounted /\ SubtitleAt(t) # currentSubtitle
              THEN /\ currentSubtitle' = SubtitleAt(t)
                   /\ staleView' = View
                   /\ UNCHANGED << requestRef, rafPending >>
              ELSE UNCHANGED << currentSubtitle, rafVars >>
    /\ UNCHANGED << mounted, appVars, selVars, editVars, activeToolCategory, isProcessing,
                    playVars, overlayVideo, audioVars, exports, aiTimers, exportCalls,
                    traceVars >>

-----------------------------------------------------------------------------
(* Specifications *)

\* The export pipeline with everything that touches the primary binding.
NextExport ==
    \/ \E a \in Range(assets) : SelectAsset(a, FALSE)
    \/ \E f \in Files : ImportFile(f)
    \/ MainLoadSettles
    \/ handlePlayPause
    \/ TopBarExport
    \/ \E res \in Qualities : handleExport(res)
    \/ \E e \in DOMAIN exports : PlayResolved(e)
    \/ \E e \in DOMAIN exports : PlayRejected(e)
    \/ \E e \in DOMAIN exports : StopTimer(e)
    \/ \E e \in DOMAIN exports : RecorderOnStop(e)
    \/ Unmount

SpecExport == Init /\ [][NextExport]_vars

\* Timers, promise reactions, recorder and media events are always delivered.
FairExport ==
    /\ WF_vars(MainLoadSettles)
    /\ \A e \in 1..MaxExports :
         /\ WF_vars(PlayResolved(e))
         /\ WF_vars(PlayRejected(e))
         /\ WF_vars(StopTimer(e))
         /\ WF_vars(RecorderOnStop(e))

FairSpecExport == SpecExport /\ FairExport

\* Editing: the property panel, the library and teardown.
NextEdit ==
    \/ \E a \in Range(assets), rejects \in BOOLEAN : SelectAsset(a, rejects)
    \/ \E f \in Files : ImportFile(f)
    \/ \E c \in ToolCategories : SetTool(c)
    \/ \E field \in DOMAIN VisualSliders : \E v \in VisualSliders[field] : SetVisual(field, v)
    \/ \E v \in VolumeValues : SetVolume(v)
    \/ \E v \in SpeedValues : SetSpeed(v)
    \/ ToggleNoiseReduction
    \/ ToggleVoiceIsolation
    \/ Unmount

SpecEdit == Init /\ [][NextEdit]_vars

\* A session in the library and the overlay panel: selecting primaries, choosing
\* and sizing the overlay, the simulated background removal, the compositor
\* loop and teardown.
NextSession ==
    \/ \E a \in Range(assets), rejects \in BOOLEAN : SelectAsset(a, rejects)
    \/ \E f \in Files : ImportFile(f)
    \/ \E c \in ToolCategories : SetTool(c)
    \/ \E a \in Range(assets) : SetOverlay(a)
    \/ RemoveOverlay
    \/ \E v \in ScaleValues : SetOverlayScale(v)
    \/ removeBackground
    \/ \E i \in DOMAIN aiTimers : RemoveBackgroundDone(i)
    \/ FlushEffects
    \/ \E id \in rafPending : Tick(id)
    \/ Unmount

SpecSession == Init /\ [][NextSession]_vars

\* Exporting with an overlay on: choosing the overlay, play/pause and the
\* export pipeline.
NextPlayback ==
    \/ \E a \in Range(assets) : SetOverlay(a)
    \/ RemoveOverlay
    \/ MainLoadSettles
    \/ handlePlayPause
    \/ \E res \in Qualities : handleExport(res)
    \/ \E e \in DOMAIN exports : PlayResolved(e)
    \/ \E e \in DOMAIN exports : PlayRejected(e)
    \/ \E e \in DOMAIN exports : StopTimer(e)
    \/ \E e \in DOMAIN exports : RecorderOnStop(e)
    \/ Unmount

SpecPlayback == Init /\ [][NextPlayback]_vars

\* The asset list and everything that adds to it: generation, file import and
\* finished exports, with selection of the primary and teardown.
NextLibrary ==
    \/ \E g \in Generations : AssetGenerated(g)
    \/ \E f \in Files : ImportFile(f)
    \/ \E a \in Range(assets) : SelectAsset(a, FALSE)
    \/ MainLoadSettles
    \/ \E res \in Qualities : handleExport(res)
    \/ \E e \in DOMAIN exports : PlayResolved(e)
    \/ \E e \in DOMAIN exports : PlayRejected(e)
    \/ \E e \in DOMAIN exports : StopTimer(e)
    \/ \E e \in DOMAIN exports : RecorderOnStop(e)
    \/ Unmount

SpecLibrary == Init /\ [][NextLibrary]_vars

\* The audio panel next to the overlay: volume and speed, choosing and
\* removing the overlay, play/pause, the compositor loop and teardown.
NextRate ==
    \/ \E c \in ToolCategories : SetTool(c)
    \/ \E v \in VolumeValues : SetVolume(v)
    \/ \E v \in SpeedValues : SetSpeed(v)
    \/ \E a \in Range(assets) : SetOverlay(a)
    \/ RemoveOverlay
    \/ handlePlayPause
    \/ \E id \in rafPending : Tick(id)
    \/ Unmount

SpecRate == Init /\ [][NextRate]_vars

\* Exporting at a chosen speed, with the time that passes while recording:
\* the speed slider and the export pipeline with its stop timer firing when
\* due, time passing two seconds at a time.
NextTimed ==
    \/ SetTool("audio")
    \/ \E v \in SpeedValues : SetSpeed(v)
    \/ MainLoadSettles
    \/ handleExport("720p")
    \/ \E e \in DOMAIN exports : PlayResolved(e)
    \/ Elapse(2)
    \/ \E e \in DOMAIN exports : StopTimerDue(e)
    \/ \E e \in DOMAIN exports : RecorderOnStop(e)

SpecTimed == Init /\ [][NextTimed]_vars

\* Working on the canvas: the tool bar, the text layer, the overlay, clicks on
\* the canvas, the compositor loop and teardown.
NextCanvas ==
    \/ \E c \in ToolCategories : SetTool(c)
    \/ \E text \in Texts : SetText(text)
    \/ ClearText
    \/ \E a \in Range(assets) : SetOverlay(a)
    \/ RemoveOverlay
    \/ \E e \in Clicks, rect \in Rects : handleCanvasClick(e, rect)
    \/ \E id \in rafPending : Tick(id)
    \/ Unmount

SpecCanvas == Init /\ [][NextCanvas]_vars

\* The compositor at work: layers appearing (the primary and the overlay
\* loading, text, the subtitle cues of runSubtitleAI during playback), the
\* look of the primary, the compositor loop and teardown.
NextDraw ==
    \/ \E c \in {"main", "ai"} : SetTool(c)
    \/ \E a \in Range(assets) : SetOverlay(a)
    \/ MainLoadSettles
    \/ OverlayLoadSettles
    \/ SetText("Hola")
    \/ \E v \in VisualSliders["brightness"] : SetVisual("brightness", v)
    \/ runSubtitleAI
    \/ \E i \in DOMAIN aiTimers : RunSubtitleAIDone(i)
    \/ TimeUpdate
    \/ FlushEffects
    \/ \E id \in rafPending : Tick(id)
    \/ Unmount

SpecDraw == Init /\ [][NextDraw]_vars

\* The "IA Magic" panel: the four simulated effects with their timers, the
\* overlay they act on, the compositor loop and teardown.
NextMagic ==
    \/ SetTool("ai")
    \/ \E a \in Range(assets) : SetOverlay(a)
    \/ MainLoadSettles
    \/ removeBackground
    \/ \E i \in DOMAIN aiTimers : RemoveBackgroundDone(i)
    \/ runSubtitleAI
    \/ \E i \in DOMAIN aiTimers : RunSubtitleAIDone(i)
    \/ Stabilize
    \/ Upscale
    \/ \E i \in DOMAIN aiTimers : ProcessingDone(i)
    \/ FlushEffects
    \/ \E id \in rafPending : Tick(id)
    \/ Unmount

SpecMagic == Init /\ [][NextMagic]_vars

-----------------------------------------------------------------------------
(* Claims about the export pipeline *)

\* Where the e-th handleExport call stands ("none" before it is made).
PcOf(e) == IF e \in DOMAIN exports THEN exports[e].pc ELSE "none"

Recording == { e \in DOMAIN exports : exports[e].recorder = "recording" }

\* Exports with a promise reaction, a stop timer or a recorder event still to come.
Pending == { e \in DOMAIN exports :
               exports[e].pc \in {"awaitPlay", "playRejected", "armed", "stopping"} }

\* C1: the mounted Editor is never exporting (isExporting = TRUE) without a
\* pending promise reaction, stop timer or recorder event that will take it
\* back to Idle, however the exporting state was entered.
C1_ExportingCanEnd == (mounted /\ isExporting) => Pending # {}

\* C2: at most one recorder is recording in any reachable state; a
\* handleExport call made while one is recording starts no second one.
C2_OneExportInFlight == Cardinality(Recording) <= 1

\* C3: once the stop trigger of an export is armed, the export ends with
\* exactly one asset prepended to the library, of type VIDEO and with a label
\* that includes the requested quality; the stop trigger leaves both bindings
\* paused and isPlaying false, and the recorder's stop handler leaves the
\* Editor Idle; the library never holds more or fewer export assets than
\* exports that have finished.
ExportAssets == { i \in DOMAIN assets : Includes(assets[i].prompt, "Export") }
Finished == { e \in DOMAIN exports : exports[e].pc = "done" }

C3_StopStep ==
    \A e \in DOMAIN exports :
        (exports[e].pc = "armed" /\ exports'[e].pc = "stopping")
            => /\ mainVideo'.paused
               /\ overlayVideo'.paused
               /\ (mounted => ~isPlaying')

C3_FinishStep ==
    \A e \in DOMAIN exports :
        (exports[e].pc = "stopping" /\ exports'[e].pc = "done")
            => /\ Len(assets') = Len(assets) + 1
               /\ Tail(assets') = assets
               /\ Head(assets').type = AssetType.VIDEO
               /\ Includes(Head(assets').prompt, exports[e].res)
               /\ Head(assets').id = exports'[e].assetId
               /\ (mounted => ~isExporting')

C3_ExportYieldsOneAsset ==
    /\ [][C3_StopStep /\ C3_FinishStep]_vars
    /\ [](Cardinality(ExportAssets) = Cardinality(Finished))
    /\ \A e \in 1..MaxExports :
          (PcOf(e) = "armed") ~> (PcOf(e) = "done")

\* C3 witness: an export of quality 1080p has finished, its asset heads the
\* library, and the Editor is Idle with the primary paused.
C3_Witness ==
    \E e \in DOMAIN exports :
        /\ exports[e].pc = "done"
        /\ exports[e].res = "1080p"
        /\ Len(assets) > 0
        /\ Head(assets).id = exports[e].assetId
        /\ Includes(Head(assets).prompt, "1080p")
        /\ mounted /\ ~isExporting /\ mainVideo.paused

\* C4: a handleExport call made while no primary asset is selected changes
\* nothing: export state, recorders and timers, both bindings, the library.
C4_NoAssetNoOp ==
    [][ (exportCalls' # exportCalls /\ selectedAsset = NoAsset)
          => UNCHANGED << isExporting, isPlaying, exports, mainVideo, overlayVideo,
                          assets >> ]_vars

\* C4 witness: handleExport has been called in an Editor that never had a
\* primary asset, and nothing was started.
C4_Witness ==
    /\ exportCalls > 0
    /\ selectedAsset = NoAsset
    /\ exports = << >>
    /\ ~isExporting

\* C5: an export whose play() was rejected is back in Idle with its recorder
\* stopped: no aborted export leaves a recorder recording.
C5_NoDanglingRecorder ==
    \A e \in DOMAIN exports :
        exports[e].pc = "aborted" => exports[e].recorder = "inactive"

-----------------------------------------------------------------------------
(* Claims about the audio graph and the edit parameters *)

\* C6: when both audio flags are on, the filter is in the mode of the flag that
\* was switched on last; noiseReduction then voiceIsolation gives BandPass.
C6_LastSetModeWins ==
    (filterNodeRef # NoFilter /\ params.noiseReduction /\ params.voiceIsolation)
        => filterNodeRef.type = (IF lastEnabled = "voiceIsolation" THEN "bandpass"
                                 ELSE "lowpass")

C8_ParamsResetOnSelect ==
    [][ selectedAsset' # selectedAsset => params' = DEFAULT_PARAMS ]_vars

-----------------------------------------------------------------------------
(* Claims about teardown and the overlay scale *)

\* C9: once the Editor is unmounted no animation-frame callback is pending and
\* the audio context, if one was made, is closed.
C9_Teardown ==
    ~mounted => (rafPending = {} /\ audioCtxRef \in {"null", "closed"})

\* C9 witness: an unmounted Editor that had made its audio context and whose
\* loop had rescheduled itself.
C9_Witness ==
    /\ ~mounted
    /\ audioCtxRef = "closed"
    /\ rafPending = {}
    /\ aiTimers # << >>

\* C10: the overlay scale is always within (0, 1].
C10_ScaleInRange ==
    /\ overlayParams.scale[1] > 0
    /\ overlayParams.scale[1] <= overlayParams.scale[2]

\* Export e is waiting for its play() promise or for the reaction to it.
Awaiting(e) == PcOf(e) \in {"awaitPlay", "playRejected"}

\* C15: every export arms exactly one stop trigger when its play() settles:
\* at primary.duration seconds when the duration is known, and at the default
\* of 10 seconds when it is not, as with a still image as primary (which the
\* video element cannot decode).
C15_OneStopTrigger ==
    [][ \A e \in DOMAIN exports :
          (Awaiting(e) /\ exports'[e].pc \notin {"awaitPlay", "playRejected"})
          => IF mainVideo.error \/ mainVideo.duration = NaN \/ mainVideo.duration = 0
             THEN mainVideo.error
                  => exports'[e].timers = 1 /\ exports'[e].delay = 10 * 1000
             ELSE exports'[e].pc = "armed"
                  => /\ exports'[e].timers = 1
                     /\ exports'[e].delay = mainVideo.duration * 1000 ]_vars

\* C16: the file downloaded at the end of an export is named with a timestamp
\* and with the quality that was asked for.
C16_FileNamed ==
    \A e \in DOMAIN exports :
        exports[e].pc = "done"
        => /\ Includes(exports[e].download, "Date.now()")
           /\ Includes(exports[e].download, exports[e].res)

\* The order the events of one export are to have.
ExportOrder ==
    << "pausePrimary", "seekPrimary", "recorderStart", "playResolved", "timerArmed",
       "stopTrigger", "recorderStop", "assetAppended" >>

IsPrefix(s, t) == Len(s) <= Len(t) /\ SubSeq(t, 1, Len(s)) = s

\* C17: the events of one export happen in the order pause primary, seek to
\* 0, recorder start, play() resolved, stop timer armed, stop trigger, recorder
\* stop, asset appended: a stop timer is armed only after play() resolved, and
\* the asset is in the list only after the recorder stopped.
C17_ExportOrder ==
    \A e \in DOMAIN exports :
        /\ IsPrefix(exports[e].log, ExportOrder)
        /\ exports[e].timers > 0 => Includes(exports[e].log, "playResolved")
        /\ exports[e].pc \in {"armed", "stopping", "done"} <=> exports[e].timers > 0
        /\ exports[e].assetId # 0
           => /\ exports[e].recorder = "inactive"
              /\ Includes(exports[e].log, "recorderStop")
        /\ exports[e].assetId # 0 <=> Includes(exports[e].log, "assetAppended")

\* An export has run through all its events.
C17_Witness == \E e \in DOMAIN exports : exports[e].log = ExportOrder

\* C18: when the recorder starts, the primary element and, with an overlay
\* chosen, the overlay element are both paused and at time zero, whatever
\* they were doing when handleExport was called.  (Nothing touches the overlay
\* element between recorder.start() and the end of the handler's first part.)
C18_PausedAtZero ==
    [][ Len(exports') > Len(exports)
        => /\ exports'[Len(exports')].atStart = [paused |-> TRUE, currentTime |-> 0]
           /\ overlayAsset # NoAsset
              => overlayVideo'.paused /\ overlayVideo'.currentTime = 0 ]_vars

-----------------------------------------------------------------------------
(* Claims about the asset list *)

\* Ids are handed out in order of arrival, so the list is in reverse order of
\* arrival when its ids count down to 1.
NewestFirst(list) == \A i \in DOMAIN list : list[i].id = Len(list) + 1 - i

\* C12: the asset list is append-only and most-recent-first: every step that
\* changes it (generation, import, export) puts exactly one new asset at the
\* front and leaves the entries it had as they were and in their order, so
\* the list is always its assets in reverse order of arrival.
C12_AppendOnly ==
    /\ [] NewestFirst(assets)
    /\ [][ assets' # assets
             => /\ Len(assets') = Len(assets) + 1
                /\ Tail(assets') = assets
                /\ \A i \in DOMAIN assets : assets[i].id # assets'[1].id ]_vars

\* The list has grown by a generated asset, an imported file and an export.
C12_Witness ==
    /\ generated = 1
    /\ imports = 1
    /\ \E e \in DOMAIN exports : exports[e].pc = "done"
    /\ Len(assets) >= 4

-----------------------------------------------------------------------------
(* Claims about playback rate and the audio filter *)

\* C13: in every reachable state the playback rate of the primary element
\* and that of the overlay element both equal the current speed parameter,
\* however speed changes interleave with binding a new primary or overlay.
C13_RatePropagated ==
    /\ mainVideo.playbackRate = params.speed
    /\ overlayVideo.playbackRate = params.speed

\* params with the two audio flags set to nr and vi
WithFlags(nr, vi) == [params EXCEPT !.noiseReduction = nr, !.voiceIsolation = vi]

\* The filter is what the audio effect makes of it under the current flags.
ModeApplied == filterNodeRef = applyFilterMode(filterNodeRef, params)

\* C14: applying an audio mode is idempotent: on any filter the Editor can
\* hold, applying the mode of any flag setting twice gives the same type,
\* frequency and Q as applying it once; and a re-run of the audio effect with
\* unchanged flags (only volume or speed changed) leaves an applied mode as it is.
C14_ModeIdempotent ==
    /\ [] (\A nr, vi \in BOOLEAN :
              LET once == applyFilterMode(filterNodeRef, WithFlags(nr, vi))
              IN  applyFilterMode(once, WithFlags(nr, vi)) = once)
    /\ [][ ( /\ ModeApplied
             /\ params'.noiseReduction = params.noiseReduction
             /\ params'.voiceIsolation = params.voiceIsolation
             /\ << params'.volume, params'.speed >> # << params.volume, params.speed >> )
           => filterNodeRef' = filterNodeRef ]_vars

\* LowPass has been applied twice in a row to an existing filter: noise
\* reduction was switched on and, after it, voice isolation, which leaves
\* the mode at LowPass; the volume has been changed as well.
C14_Witness ==
    /\ filterNodeRef = [type |-> "lowpass", frequency |-> 3000, Q |-> 1]
    /\ params.noiseReduction
    /\ params.voiceIsolation
    /\ lastEnabled = "voiceIsolation"
    /\ params.volume # DEFAULT_PARAMS.volume

\* C19: whenever the filter node exists its mode is the one the current
\* flags select: Flat (allpass) with neither flag, LowPass at 3000 Hz with
\* noiseReduction alone, BandPass with voiceIsolation alone; also right after
\* the graph is first built by selecting a primary in an Editor mounted with
\* no asset.  (Both flags at once are the subject of C6.)
C19_ModeFollowsFlags ==
    filterNodeRef # NoFilter
    => /\ (~params.noiseReduction /\ ~params.voiceIsolation)
          => filterNodeRef.type = "allpass"
       /\ (params.noiseReduction /\ ~params.voiceIsolation)
          => filterNodeRef.type = "lowpass" /\ filterNodeRef.frequency = 3000
       /\ (~params.noiseReduction /\ params.voiceIsolation)
          => filterNodeRef.type = "bandpass"

-----------------------------------------------------------------------------
(* Claims about the canvas *)

\* C20: a change of the state draw reads (params, overlay and text
\* transform, text, subtitle cue, tool category) made after one tick is used
\* by the next tick: no tick paints state older than the state it runs in.
\* (A tick paints from one closure, so it never mixes two renders' values.)
C20_TickUsesLatest == ~lastTickStale

\* a/b = c/d for fractions with positive denominators
SameNumber(p, q) == p[1] * q[2] = q[1] * p[2]

\* Where on the canvas, as fractions of its laid-out width and height, a click is.
FractionalPosition(click) ==
    [ fx |-> << click.clientX - click.rect.left, click.rect.width >>,
      fy |-> << click.clientY - click.rect.top, click.rect.height >> ]

\* C11: a click on the canvas at fractional position (fx, fy), made while the
\* text layer holds text and the main tool is active, sets the text transform
\* to x = fx, y = fy, scale 1, rotation 0, whatever it was before.
C11_ClickMovesText ==
    [][ (lastClick' # lastClick /\ Truthy(textLayer) /\ activeToolCategory = "main")
        => /\ SameNumber(textParams'.x, FractionalPosition(lastClick').fx)
           /\ SameNumber(textParams'.y, FractionalPosition(lastClick').fy)
           /\ textParams'.scale = 1
           /\ textParams'.rotation = 0 ]_vars

\* A click with the text layer on and the main tool active has moved the text
\* away from its initial place, on the canvas laid out at half its bitmap size.
C11_Witness ==
    /\ lastClick # NoClick
    /\ lastClick.rect.width = 640
    /\ Truthy(textLayer)
    /\ activeToolCategory = "main"
    /\ textParams = [x |-> <<1, 4>>, y |-> <<1, 4>>, scale |-> 1, rotation |-> 0]

-----------------------------------------------------------------------------
(* Claims about the compositor's frames *)

\* C21: while the Editor is mounted the compositor loop never ends: after
\* every tick, whether or not the primary is playing or has a decoded frame,
\* the frame callback draw requested last is pending, so another tick is
\* always to come.
C21_LoopAlive == mounted => requestRef \in rafPending

\* A tick has painted a frame with the primary paused and without a decoded
\* frame, and the next one is pending.
C21_Witness ==
    /\ mounted
    /\ canvas.width = 1280
    /\ canvas.layers = << "clear", "black" >>
    /\ mainVideo.paused
    /\ mainVideo.readyState < 2
    /\ requestRef \in rafPending

\* Back-to-front position of what a tick paints; the selection outline
\* belongs to the overlay layer.
LayerRank(layer) ==
    CASE layer = "clear" -> 0
      [] layer = "black" -> 1
      [] layer = "primary" -> 2
      [] layer \in {"overlay", "outline"} -> 3
      [] layer = "text" -> 4
      [] layer = "subtitle" -> 5

\* C22: every tick paints in the fixed order: the surface is cleared and
\* filled black first, then come the primary, the overlay, the text and the
\* subtitle cue; whichever layers are present, none is painted before a layer
\* that is earlier in this order.
C22_FixedOrder ==
    canvas.width = 1280 =>
        /\ Len(canvas.layers) >= 2
        /\ canvas.layers[1] = "clear"
        /\ canvas.layers[2] = "black"
        /\ \A i \in 3..Len(canvas.layers) : LayerRank(canvas.layers[i]) >= 2
        /\ \A i, j \in DOMAIN canvas.layers :
             i < j => LayerRank(canvas.layers[i]) <= LayerRank(canvas.layers[j])

\* A tick has painted all four layers.
C22_Witness ==
    {"primary", "overlay", "text", "subtitle"} \subseteq Range(canvas.layers)

\* C23: a layer without a decoded frame is left out and nothing else is: the
\* frame a tick of the mounted Editor paints has the primary exactly if the
\* primary element has a frame (readyState >= 2) and the overlay exactly if an
\* overlay is chosen and its element has a frame; in every case it still has
\* the text and the subtitle cue of the state it draws, and the next tick is
\* requested.
C23_SkipsUnreadyLayers ==
    mounted =>
        LET painted == Range(LayersOf(Frame.out))
        IN  /\ ("primary" \in painted) <=> (mainVideo.readyState >= 2)
            /\ ("overlay" \in painted)
                   <=> (overlayAsset # NoAsset /\ overlayVideo.readyState >= 2)
            /\ ("text" \in painted) <=> (Drawn[3] # << >>)
            /\ ("subtitle" \in painted) <=> (Drawn[4] # "")
            /\ canvas.width = 1280 => requestRef \in rafPending

\* A tick has painted the text alone, with both the primary and the chosen
\* overlay failed to decode, and the next tick is pending.
C23_Witness ==
    /\ mounted
    /\ canvas.layers = << "clear", "black", "text", "text" >>
    /\ LayersOf(Frame.out) = canvas.layers
    /\ mainVideo.error
    /\ overlayAsset # NoAsset
    /\ overlayVideo.error
    /\ requestRef \in rafPending

\* The drawing state a layer above the primary is painted in is clean: no
\* filter, full opacity, no shadow left by another layer, and no transform
\* but the layer's own move to its place.
CleanPaint(p) ==
    /\ p.ctx.filter = << "none" >>
    /\ p.ctx.globalAlpha = 100
    /\ p.ctx.shadowBlur = (CASE p.layer \in {"overlay", "outline"} -> 10
                            [] p.layer = "subtitle" -> 4
                            [] OTHER -> 0)
    /\ IF p.layer = "subtitle" THEN p.ctx.transform = << >>
       ELSE /\ Len(p.ctx.transform) = 1
            /\ p.ctx.transform[1][1] = (IF p.layer = "text" THEN "translateBy" ELSE "translate")

\* C24: the drawing state of the primary layer never leaks.  In every frame
\* the mounted Editor paints, for every value of the edit parameters, the
\* overlay, the text and the subtitle cue are painted with no filter, at full
\* opacity and in the un-zoomed, un-rotated coordinate system; the frame
\* starts from the default drawing state, and the tick leaves the context in
\* the default state with nothing saved.
C24_NoLeak ==
    mounted =>
        LET f == Frame
        IN  /\ canvas.ctx = DefaultCtx
            /\ canvas.stack = << >>
            /\ f.out[1].ctx = DefaultCtx
            /\ \A i \in DOMAIN f.out :
                 f.out[i].layer \in {"overlay", "outline", "text", "subtitle"}
                    => CleanPaint(f.out[i])
            /\ f.ctx = DefaultCtx
            /\ f.stack = << >>

\* Ticks have painted the overlay, the text and the subtitle cue over the
\* primary, and the frame to paint now has them all over a primary drawn
\* brighter than the default.
C24_Witness ==
    /\ mounted
    /\ {"primary", "overlay", "text", "subtitle"} \subseteq Range(canvas.layers)
    /\ {"primary", "overlay", "text", "subtitle"} \subseteq Range(LayersOf(Frame.out))
    /\ Drawn[1].brightness = 150
    /\ canvas.ctx = DefaultCtx

-----------------------------------------------------------------------------
(* Claims about canvas clicks and the simulated effects *)

\* C25: a click on the canvas changes at most one transform and nothing
\* else.  With the overlay tool active and an overlay chosen it sets the
\* overlay's x, y to the click point minus (100, 50) and leaves the overlay's
\* scale and rotation and the text transform alone; with the main tool active
\* and a text it changes the text transform only; in every other situation it
\* changes nothing.
C25_ClickChangesOneTransform ==
    [][ \A e \in Clicks, rect \in Rects :
          handleCanvasClick(e, rect) =>
             /\ IF overlayAsset # NoAsset /\ activeToolCategory = "overlay"
                THEN /\ overlayParams' =
                          [overlayParams EXCEPT !.x = e.clientX - rect.left - 100,
                                                !.y = e.clientY - rect.top - 50]
                     /\ textParams' = textParams
                ELSE IF Truthy(textLayer) /\ activeToolCategory = "main"
                THEN overlayParams' = overlayParams
                ELSE /\ overlayParams' = overlayParams
                     /\ textParams' = textParams
             /\ UNCHANGED << mounted, appVars, selVars, params, textLayer, lastEnabled,
                             uiVars, playVars, mediaVars, audioVars, exports, aiTimers,
                             exportCalls >> ]_vars

\* A click with the overlay tool active has moved the chosen overlay, on the
\* canvas laid out at half its bitmap size, while a text is on that stayed
\* where it was.
C25_Witness ==
    /\ lastClick = [clientX |-> 420, clientY |-> 338,
                    rect |-> [left |-> 100, top |-> 50, width |-> 640, height |-> 360]]
    /\ activeToolCategory = "overlay"
    /\ overlayAsset # NoAsset
    /\ overlayParams = [InitialOverlayParams EXCEPT !.x = 220, !.y = 238]
    /\ Truthy(textLayer)
    /\ textParams = InitialTextParams

\* C26: the simulated AI effects (background removal, automatic subtitles,
\* stabilisation, upscaling) touch the processing indicator only: neither
\* pressing one of their buttons nor the firing of one of their timers
\* changes the edit parameters, the overlay or text transform, the subtitle
\* cue, or whether the primary and the overlay are playing.
C26_OnlyIndicator ==
    [][ aiTimers' # aiTimers =>
          /\ UNCHANGED << params, overlayParams, textParams, currentSubtitle, isPlaying >>
          /\ mainVideo'.paused = mainVideo.paused
          /\ overlayVideo'.paused = overlayVideo.paused ]_vars

\* The cue of the half-open windows [1, 3) and [3, 5) at position t
HalfOpenCue(t) ==
    IF 1 <= t /\ t < 3 THEN Cue1
    ELSE IF 3 <= t /\ t < 5 THEN Cue2
    ELSE ""

\* C27: the subtitle cues use half-open windows on the primary's play
\* position: whenever the position is reported to the subtitle handler, the
\* cue shown afterwards is the first one exactly for 1 <= t < 3, the second
\* one exactly for 3 <= t < 5, and none otherwise.
C27_HalfOpenWindows ==
    [][ (TimeUpdate /\ mounted /\ mainVideo.subtitleHook)
          => currentSubtitle' = HalfOpenCue(mainVideo'.currentTime) ]_vars

-----------------------------------------------------------------------------
(* Claims about playback *)

\* C28: the isPlaying flag agrees with the primary element: in every
\* reachable state of the mounted Editor isPlaying is true exactly when the
\* primary element is playing.
C28_FlagAgreesWithPrimary == mounted => (isPlaying <=> ~mainVideo.paused)

\* C29: the overlay follows the primary: in every reachable state of the
\* mounted Editor with an overlay chosen, the overlay element is playing
\* exactly when the primary element is playing.
C29_OverlayFollowsPrimary ==
    (mounted /\ overlayAsset # NoAsset) => (overlayVideo.paused <=> mainVideo.paused)

\* Export e has started and its stop trigger has not fired.
InProgress(pc) == pc \in {"awaitPlay", "armed"}

\* C30: a recording in progress is not disturbed: no step taken while an
\* export is between its start and the firing of its stop trigger, and which
\* leaves it there, binds the primary element to another asset or leaves it
\* not playing; so the primary stays on the asset selected at the start.
C30_RecordingUndisturbed ==
    [][ \A e \in DOMAIN exports :
          (InProgress(exports[e].pc) /\ InProgress(exports'[e].pc))
             => /\ mainVideo'.src = mainVideo.src
                /\ ~mainVideo'.paused ]_vars

\* C31: an export records exactly one full play-through of the primary: when
\* the stop trigger of an export fires, the primary has played its duration
\* once since the trigger was armed, no less and no more, whatever the speed
\* parameter is.
C31_OnePlayThrough ==
    [][ \A e \in DOMAIN exports :
          (exports[e].pc = "armed" /\ exports'[e].pc = "stopping")
             => exports[e].played = mainVideo.duration * 1000 ]_vars

-----------------------------------------------------------------------------
(* Claims about the render loop, the processing indicator and file import *)

\* C32: while the Editor is mounted at most one animation-frame callback is
\* pending, for any interleaving of re-renders (each re-runs the render-loop
\* effect) and ticks (each requests the next frame): a re-render replaces the
\* pending callback and never starts a second draw chain.
C32_OneDrawChain == mounted => Cardinality(rafPending) <= 1

\* Ticks have run and an effect button has re-rendered the Editor, and the one
\* pending callback is the one requested last.
C32_Witness ==
    /\ mounted
    /\ canvas.width = 1280
    /\ isProcessing # "null"
    /\ aiTimers # << >>
    /\ rafPending = {requestRef}

\* The message an effect shows while it runs (lines 333, 353, 500, 501)
MessageOf(effect) ==
    CASE effect = "runSubtitleAI" -> "Analizando Audio..."
      [] effect = "removeBackground" -> "Detectando sujeto..."
      [] effect = "stabilize" -> "Estabilizando..."
      [] effect = "upscale" -> "Upscaling 4K..."

\* C33: the processing indicator is shown exactly while a simulated effect
\* is pending: in the mounted Editor isProcessing is non-null if and only if
\* a timer of an effect is outstanding, and then it is the message of the
\* effect started last, also when effects overlap.
C33_IndicatorWhilePending ==
    mounted =>
        /\ (isProcessing # "null") <=> (aiTimers # << >>)
        /\ aiTimers # << >> => isProcessing = MessageOf(aiTimers[Len(aiTimers)])

\* C34: importing a local file adds exactly one new asset, labelled with the
\* file's name, whose kind is that of the file: Image for an image file and
\* Video for a video file.
C34_ImportKeepsKind ==
    [][ imports' # imports =>
          /\ Len(assets') = Len(assets) + 1
          /\ Tail(assets') = assets
          /\ \E f \in Files :
                /\ assets'[1].prompt = << f.name >>
                /\ assets'[1].media = f.mime
                /\ assets'[1].type = (IF f.mime = "image" THEN AssetType.IMAGE
                                      ELSE AssetType.VIDEO) ]_vars

====
